---- MODULE Spec2Model ----
(***************************************************************************)
(* A model of the MCAP record serialisation layer: the length-backpatching *)
(* RecordBuilder of mcap/data_stream.py and the fifteen record encoders of *)
(* mcap/records.py.                                                        *)
(*                                                                         *)
(* Bytes are the integers 0..255, byte strings are sequences of bytes and  *)
(* Python str values are sequences of Unicode code points.  Integers of    *)
(* the model stay below 2^31, so the upper limits of the 4- and 8-byte     *)
(* formats are never exceeded; the 1- and 2-byte formats keep their width. *)
(***************************************************************************)
EXTENDS Integers, Sequences, FiniteSets, TLC

VARIABLES
    build,      \* the interpreter running the code: "cpython" or "micropython"
    stream,     \* the destination RecordBuilder: _buffer (value and position),
                \* _record_start_offset
    err,        \* the exception the last call raised, "none" when it returned
    op,         \* the last call made, with its arguments
    ret,        \* the value the last call returned (end() only), else <<>>
    open,       \* observer: a record was started and not yet finished
    misuse,     \* observer: the start/finish protocol was broken since the
                \* last end()
    nbytes,     \* observer: bytes handed to write calls since the last
                \* start_record
    emitted,    \* observer: the wire bytes of everything completed since the
                \* last end(), framed independently of the builder
    cur,        \* observer: opcode and payload of the record being written
    recs,       \* observer: the records encoded so far, each with the count
                \* of the builder before and after its write
    aborted,    \* observer: an encoder raised and left a partial record
    nstarts,    \* observer: start_record calls since the last end()
    nwrites,    \* observer: write calls since the last end()
    reused,     \* observer: the builder was called again after an end()
    nafter      \* observer: calls made since the protocol was broken

vars == <<build, stream, err, op, ret, open, misuse, nbytes, emitted, cur,
          recs, aborted, nstarts, nwrites, reused, nafter>>

(***************************************************************************)
(* Bounds of the model.                                                    *)
(***************************************************************************)
MaxStarts == 2      \* start_record calls per buffer lifetime (builder spec)
MaxWrites == 2      \* write calls per buffer lifetime (builder spec)
MaxRecords == 2     \* records encoded per buffer lifetime (encoder spec)
MaxAfter == 1       \* calls followed after a protocol breach (builder spec)
MaxOffset == 40     \* appending calls are made up to this write position

Unset == -1         \* _record_start_offset before the first start_record

Byte == 0..255

Drop(s, n) == SubSeq(s, n + 1, Len(s))

Take(s, n) == SubSeq(s, 1, n)

(***************************************************************************)
(* struct.pack("<B" | "<H" | "<I" | "<Q", value)                           *)
(***************************************************************************)
RECURSIVE LittleEndian(_, _)
LittleEndian(width, value) ==
    IF width = 0 THEN <<>>
    ELSE <<value % 256>> \o LittleEndian(width - 1, value \div 256)

InRange(width, value) ==
    /\ value >= 0
    /\ width = 1 => value < 256
    /\ width = 2 => value < 65536

\* CPython raises struct.error for a value outside the format's range;
\* MicroPython stores the low bytes of the value without a check.
struct_pack(width, value) ==
    IF InRange(width, value) \/ build = "micropython"
    THEN [exc |-> "none", bytes |-> LittleEndian(width, value)]
    ELSE [exc |-> "struct.error", bytes |-> <<>>]

(***************************************************************************)
(* str.encode(): UTF-8                                                     *)
(***************************************************************************)
EncodeChar(c) ==
    IF c < 128 THEN <<c>>
    ELSE IF c < 2048 THEN <<192 + (c \div 64), 128 + (c % 64)>>
    ELSE IF c < 65536
         THEN <<224 + (c \div 4096), 128 + ((c \div 64) % 64), 128 + (c % 64)>>
    ELSE <<240 + (c \div 262144), 128 + ((c \div 4096) % 64),
           128 + ((c \div 64) % 64), 128 + (c % 64)>>

RECURSIVE encode(_)
encode(s) ==
    IF s = <<>> THEN <<>> ELSE EncodeChar(Head(s)) \o encode(Tail(s))

(***************************************************************************)
(* io.BytesIO: a byte string and a position                                *)
(***************************************************************************)
NewBuilder == [buffer |-> <<>>, pos |-> 0, record_start_offset |-> Unset,
               exc |-> "none"]

\* BytesIO.write: overwrite from the position on, extend as needed, fill a
\* gap left by a seek past the end with zero bytes.
BytesIO_write(b, data) ==
    IF data = <<>> THEN b
    ELSE IF b.pos = Len(b.buffer)
         THEN [b EXCEPT !.buffer = @ \o data, !.pos = @ + Len(data)]
    ELSE LET old == b.buffer
             end == b.pos + Len(data)
             size == IF end > Len(old) THEN end ELSE Len(old)
         IN [b EXCEPT !.buffer =
                        [i \in 1..size |->
                            IF i > b.pos /\ i <= end THEN data[i - b.pos]
                            ELSE IF i <= Len(old) THEN old[i] ELSE 0],
                      !.pos = end]

(***************************************************************************)
(* RecordBuilder.  A builder value carries the pending exception of the    *)
(* call sequence it is threaded through: once a call has raised, the       *)
(* statements after it do not run.                                         *)
(***************************************************************************)
count(b) == b.pos

write(b, data) ==
    IF b.exc # "none" THEN b ELSE BytesIO_write(b, data)

writeN(b, width, value) ==
    IF b.exc # "none" THEN b
    ELSE LET p == struct_pack(width, value)
         IN IF p.exc # "none" THEN [b EXCEPT !.exc = p.exc]
            ELSE write(b, p.bytes)

write1(b, value) == writeN(b, 1, value)

write2(b, value) == writeN(b, 2, value)

write4(b, value) == writeN(b, 4, value)

write8(b, value) == writeN(b, 8, value)

write_prefixed_string(b, value) ==
    LET bytes == encode(value)
    IN write(write4(b, Len(bytes)), bytes)

start_record(b, opcode) ==
    IF b.exc # "none" THEN b
    ELSE LET marked == [b EXCEPT !.record_start_offset = b.pos]
             p == struct_pack(1, opcode)
         IN IF p.exc # "none" THEN [marked EXCEPT !.exc = p.exc]
            ELSE write(marked, p.bytes \o LittleEndian(8, 0))

\* Fault variant: the header is counted as 8 bytes, not 9.
finish_record_off_by_one(b) ==
    IF b.exc # "none" THEN b
    ELSE IF b.record_start_offset = Unset
         THEN [b EXCEPT !.exc = "AttributeError"]
    ELSE LET pos == b.pos
             length == pos - b.record_start_offset - 8
             sought == [b EXCEPT !.pos = b.record_start_offset + 1]
             p == struct_pack(8, length)
         IN IF p.exc # "none" THEN [sought EXCEPT !.exc = p.exc]
            ELSE [write(sought, p.bytes) EXCEPT !.pos = pos]

\* Fault variant: the write position is not restored after the backpatch.
finish_record_no_restore(b) ==
    IF b.exc # "none" THEN b
    ELSE IF b.record_start_offset = Unset
         THEN [b EXCEPT !.exc = "AttributeError"]
    ELSE LET pos == b.pos
             length == pos - b.record_start_offset - 9
             sought == [b EXCEPT !.pos = b.record_start_offset + 1]
             p == struct_pack(8, length)
         IN IF p.exc # "none" THEN [sought EXCEPT !.exc = p.exc]
            ELSE write(sought, p.bytes)

finish_record(b) ==
    IF b.exc # "none" THEN b
    ELSE IF b.record_start_offset = Unset
         THEN [b EXCEPT !.exc = "AttributeError"]
    ELSE LET pos == b.pos
             length == pos - b.record_start_offset - 9
             sought == [b EXCEPT !.pos = b.record_start_offset + 1]
             p == struct_pack(8, length)
         IN IF p.exc # "none" THEN [sought EXCEPT !.exc = p.exc]
            ELSE [write(sought, p.bytes) EXCEPT !.pos = pos]

\* end(): the value returned and the builder left behind.
end_value(b) == b.buffer

\* Fault variant: the buffer is returned but not replaced.
end_builder_keep(b) == b

end_builder(b) == [b EXCEPT !.buffer = <<>>, !.pos = 0]

(***************************************************************************)
(* zlib.crc32: the reflected CRC-32 (polynomial EDB88320), one table step  *)
(* per byte.  A 32-bit word is its four bytes, least significant first, so *)
(* the result is already what struct.pack("<I", crc) writes.               *)
(***************************************************************************)
RECURSIVE XorBits(_, _, _)
XorBits(a, b, n) ==
    IF n = 0 THEN 0
    ELSE ((a + b) % 2) + 2 * XorBits(a \div 2, b \div 2, n - 1)

XorTable == [a \in Byte |-> [b \in Byte |-> XorBits(a, b, 8)]]

Xor32(v, w) == [i \in 1..4 |-> XorTable[v[i]][w[i]]]

CrcPoly == <<32, 131, 184, 237>>

CrcShift(w) ==
    LET sh == <<(w[1] \div 2) + 128 * (w[2] % 2),
                (w[2] \div 2) + 128 * (w[3] % 2),
                (w[3] \div 2) + 128 * (w[4] % 2),
                w[4] \div 2>>
    IN IF w[1] % 2 = 1 THEN Xor32(sh, CrcPoly) ELSE sh

CrcTable ==
    [n \in Byte |->
        CrcShift(CrcShift(CrcShift(CrcShift(
        CrcShift(CrcShift(CrcShift(CrcShift(<<n, 0, 0, 0>>))))))))]

RECURSIVE CrcUpdate(_, _, _)
CrcUpdate(crc, data, i) ==
    IF i > Len(data) THEN crc
    ELSE CrcUpdate(Xor32(<<crc[2], crc[3], crc[4], 0>>,
                         CrcTable[XorTable[crc[1]][data[i]]]),
                   data, i + 1)

zlib_crc32(data) ==
    Xor32(CrcUpdate(<<255, 255, 255, 255>>, data, 1), <<255, 255, 255, 255>>)

(***************************************************************************)
(* Opcode: the one-byte tag of each record kind.                           *)
(***************************************************************************)
Opcode ==
    [HEADER |-> 1, FOOTER |-> 2, SCHEMA |-> 3, CHANNEL |-> 4, MESSAGE |-> 5,
     CHUNK |-> 6, MESSAGE_INDEX |-> 7, CHUNK_INDEX |-> 8, ATTACHMENT |-> 9,
     ATTACHMENT_INDEX |-> 10, STATISTICS |-> 11, METADATA |-> 12,
     METADATA_INDEX |-> 13, SUMMARY_OFFSET |-> 14, DATA_END |-> 15]

(***************************************************************************)
(* The record encoders.  A record is a TLA+ record of its fields; a dict   *)
(* or list field is the sequence of its items in iteration order.          *)
(***************************************************************************)
\* Fault variant: the checksum covers the header too (data[:-4]).
Attachment_write_crc_header(s, self) ==
    LET b0 == start_record(NewBuilder, Opcode.ATTACHMENT)
        b1 == write8(b0, self.log_time)
        b2 == write8(b1, self.create_time)
        b3 == write_prefixed_string(b2, self.name)
        b4 == write_prefixed_string(b3, self.media_type)
        b5 == write8(b4, Len(self.data))
        b6 == write(b5, self.data)
        b7 == write4(b6, 0)
        builder == finish_record(b7)
        data == end_value(builder)
    IN IF s.exc # "none" THEN s
       ELSE IF builder.exc # "none" THEN [s EXCEPT !.exc = builder.exc]
       ELSE write(write(s, Take(data, Len(data) - 4)),
                  zlib_crc32(Take(data, Len(data) - 4)))

\* Fault variant: the placeholder checksum is copied too (data, not
\* data[:-4]) before the checksum is appended.
Attachment_write_keep_placeholder(s, self) ==
    LET b0 == start_record(NewBuilder, Opcode.ATTACHMENT)
        b1 == write8(b0, self.log_time)
        b2 == write8(b1, self.create_time)
        b3 == write_prefixed_string(b2, self.name)
        b4 == write_prefixed_string(b3, self.media_type)
        b5 == write8(b4, Len(self.data))
        b6 == write(b5, self.data)
        b7 == write4(b6, 0)
        builder == finish_record(b7)
        data == end_value(builder)
    IN IF s.exc # "none" THEN s
       ELSE IF builder.exc # "none" THEN [s EXCEPT !.exc = builder.exc]
       ELSE write(write(s, data),
                  zlib_crc32(SubSeq(data, 10, Len(data) - 4)))

Attachment_write(s, self) ==
    LET b0 == start_record(NewBuilder, Opcode.ATTACHMENT)
        b1 == write8(b0, self.log_time)
        b2 == write8(b1, self.create_time)
        b3 == write_prefixed_string(b2, self.name)
        b4 == write_prefixed_string(b3, self.media_type)
        b5 == write8(b4, Len(self.data))
        b6 == write(b5, self.data)
        b7 == write4(b6, 0)
        builder == finish_record(b7)
        data == end_value(builder)
    IN IF s.exc # "none" THEN s
       ELSE IF builder.exc # "none" THEN [s EXCEPT !.exc = builder.exc]
       ELSE write(write(s, Take(data, Len(data) - 4)),
                  zlib_crc32(SubSeq(data, 10, Len(data) - 4)))

AttachmentIndex_write(s, self) ==
    LET b0 == start_record(s, Opcode.ATTACHMENT_INDEX)
        b1 == write8(b0, self.offset)
        b2 == write8(b1, self.length)
        b3 == write8(b2, self.log_time)
        b4 == write8(b3, self.create_time)
        b5 == write8(b4, self.data_size)
        b6 == write_prefixed_string(b5, self.name)
        b7 == write_prefixed_string(b6, self.media_type)
    IN finish_record(b7)

\* Fault variant: characters are counted, not encoded bytes.
RECURSIVE MetaLength_chars(_)
MetaLength_chars(metadata) ==
    IF metadata = <<>> THEN 0
    ELSE 8 + Len(Head(metadata)[1]) + Len(Head(metadata)[2])
           + MetaLength_chars(Tail(metadata))

\* meta_length accumulated over self.metadata.items()
RECURSIVE MetaLength(_)
MetaLength(metadata) ==
    IF metadata = <<>> THEN 0
    ELSE 8 + Len(encode(Head(metadata)[1])) + Len(encode(Head(metadata)[2]))
           + MetaLength(Tail(metadata))

\* for k, v in self.metadata.items(): two prefixed strings each
RECURSIVE WriteMetadata(_, _)
WriteMetadata(b, metadata) ==
    IF metadata = <<>> THEN b
    ELSE WriteMetadata(
             write_prefixed_string(
                 write_prefixed_string(b, Head(metadata)[1]),
                 Head(metadata)[2]),
             Tail(metadata))

\* for id, n in items: write2(id), write8(n)
RECURSIVE WriteIdPairs(_, _)
WriteIdPairs(b, items) ==
    IF items = <<>> THEN b
    ELSE WriteIdPairs(write8(write2(b, Head(items)[1]), Head(items)[2]),
                      Tail(items))

\* for timestamp, offset in self.records: write8, write8
RECURSIVE WriteTimePairs(_, _)
WriteTimePairs(b, items) ==
    IF items = <<>> THEN b
    ELSE WriteTimePairs(write8(write8(b, Head(items)[1]), Head(items)[2]),
                        Tail(items))

Channel_write(s, self) ==
    LET b0 == start_record(s, Opcode.CHANNEL)
        b1 == write2(b0, self.id)
        b2 == write2(b1, self.schema_id)
        b3 == write_prefixed_string(b2, self.topic)
        b4 == write_prefixed_string(b3, self.message_encoding)
        b5 == write4(b4, MetaLength(self.metadata))
        b6 == WriteMetadata(b5, self.metadata)
    IN finish_record(b6)

Chunk_write(s, self) ==
    LET b0 == start_record(s, Opcode.CHUNK)
        b1 == write8(b0, self.message_start_time)
        b2 == write8(b1, self.message_end_time)
        b3 == write8(b2, self.uncompressed_size)
        b4 == write4(b3, self.uncompressed_crc)
        b5 == write_prefixed_string(b4, self.compression)
        b6 == write8(b5, Len(self.data))
        b7 == write(b6, self.data)
    IN finish_record(b7)

ChunkIndex_write(s, self) ==
    LET b0 == start_record(s, Opcode.CHUNK_INDEX)
        b1 == write8(b0, self.message_start_time)
        b2 == write8(b1, self.message_end_time)
        b3 == write8(b2, self.chunk_start_offset)
        b4 == write8(b3, self.chunk_length)
        b5 == write4(b4, Len(self.message_index_offsets) * 10)
        b6 == WriteIdPairs(b5, self.message_index_offsets)
        b7 == write8(b6, self.message_index_length)
        b8 == write_prefixed_string(b7, self.compression)
        b9 == write8(b8, self.compressed_size)
        b10 == write8(b9, self.uncompressed_size)
    IN finish_record(b10)

DataEnd_write(s, self) ==
    finish_record(write4(start_record(s, Opcode.DATA_END),
                         self.data_section_crc))

Footer_write(s, self) ==
    LET b0 == start_record(s, Opcode.FOOTER)
        b1 == write8(b0, self.summary_start)
        b2 == write8(b1, self.summary_offset_start)
        b3 == write4(b2, self.summary_crc)
    IN finish_record(b3)

Header_write(s, self) ==
    LET b0 == start_record(s, Opcode.HEADER)
        b1 == write_prefixed_string(b0, self.profile)
        b2 == write_prefixed_string(b1, self.library)
    IN finish_record(b2)

\* Fault variant: publish_time is written before log_time.
Message_write_swapped(s, self) ==
    LET b0 == start_record(s, Opcode.MESSAGE)
        b1 == write2(b0, self.channel_id)
        b2 == write4(b1, self.sequence)
        b3 == write8(b2, self.publish_time)
        b4 == write8(b3, self.log_time)
        b5 == write(b4, self.data)
    IN finish_record(b5)

Message_write(s, self) ==
    LET b0 == start_record(s, Opcode.MESSAGE)
        b1 == write2(b0, self.channel_id)
        b2 == write4(b1, self.sequence)
        b3 == write8(b2, self.log_time)
        b4 == write8(b3, self.publish_time)
        b5 == write(b4, self.data)
    IN finish_record(b5)

MessageIndex_write(s, self) ==
    LET b0 == start_record(s, Opcode.MESSAGE_INDEX)
        b1 == write2(b0, self.channel_id)
        b2 == write4(b1, Len(self.records) * 16)
        b3 == WriteTimePairs(b2, self.records)
    IN finish_record(b3)

Metadata_write(s, self) ==
    LET b0 == start_record(s, Opcode.METADATA)
        b1 == write_prefixed_string(b0, self.name)
        b2 == write4(b1, MetaLength(self.metadata))
        b3 == WriteMetadata(b2, self.metadata)
    IN finish_record(b3)

MetadataIndex_write(s, self) ==
    LET b0 == start_record(s, Opcode.METADATA_INDEX)
        b1 == write8(b0, self.offset)
        b2 == write8(b1, self.length)
        b3 == write_prefixed_string(b2, self.name)
    IN finish_record(b3)

Schema_write(s, self) ==
    LET b0 == start_record(s, Opcode.SCHEMA)
        b1 == write2(b0, self.id)
        b2 == write_prefixed_string(b1, self.name)
        b3 == write_prefixed_string(b2, self.encoding)
        b4 == write4(b3, Len(self.data))
        b5 == write(b4, self.data)
    IN finish_record(b5)

Statistics_write(s, self) ==
    LET b0 == start_record(s, Opcode.STATISTICS)
        b1 == write8(b0, self.message_count)
        b2 == write2(b1, self.schema_count)
        b3 == write4(b2, self.channel_count)
        b4 == write4(b3, self.attachment_count)
        b5 == write4(b4, self.metadata_count)
        b6 == write4(b5, self.chunk_count)
        b7 == write8(b6, self.message_start_time)
        b8 == write8(b7, self.message_end_time)
        b9 == write4(b8, Len(self.channel_message_counts) * 10)
        b10 == WriteIdPairs(b9, self.channel_message_counts)
    IN finish_record(b10)

SummaryOffset_write(s, self) ==
    LET b0 == start_record(s, Opcode.SUMMARY_OFFSET)
        b1 == write1(b0, self.group_opcode)
        b2 == write8(b1, self.group_start)
        b3 == write8(b2, self.group_length)
    IN finish_record(b3)

(***************************************************************************)
(* The observer's own rendering of the wire format, written from the       *)
(* format's definition and not from the builder: fixed-width little-endian *)
(* integers, length-prefixed strings and opcode/length/payload frames.     *)
(***************************************************************************)
WireInt(width, value) ==
    [i \in 1..width |-> IF i <= 4 THEN (value \div (256 ^ (i - 1))) % 256 ELSE 0]

WireFrame(opcode, payload) ==
    <<opcode>> \o WireInt(8, Len(payload)) \o payload

WireString(value) == WireInt(4, Len(encode(value))) \o encode(value)

WireAttachment(a) ==
    LET body == WireInt(8, a.log_time) \o WireInt(8, a.create_time)
                \o WireString(a.name) \o WireString(a.media_type)
                \o WireInt(8, Len(a.data)) \o a.data
    IN WireFrame(9, body \o zlib_crc32(body))

\* The unsigned little-endian integer of `width` bytes after offset `off`;
\* -1 when it does not fit the integers of the model.
WireRead(bytes, off, width) ==
    IF \E i \in 5..width : bytes[off + i] # 0 THEN -1
    ELSE IF width >= 4 /\ bytes[off + 4] >= 128 THEN -1
    ELSE LET n == IF width < 4 THEN width ELSE 4
             F[i \in 0..n] ==
                 IF i = 0 THEN 0 ELSE F[i - 1] + bytes[off + i] * (256 ^ (i - 1))
         IN F[n]

NoRecord == [opcode |-> 0, payload |-> <<>>]

\* The u64 length field of the record whose header begins at offset `start`.
LengthField(bytes, start) == WireRead(bytes, start + 1, 8)

(***************************************************************************)
(* The observer's decoder: it reads a record back from bytes alone, field  *)
(* by field in the order of the format's layout table.  An offset counts   *)
(* the bytes before the field; every reader returns the value and the      *)
(* offset after it.                                                        *)
(***************************************************************************)
RECURSIVE Utf8Decode(_)
Utf8Decode(bytes) ==
    IF bytes = <<>> THEN <<>>
    ELSE LET b == bytes[1]
         IN IF b < 128 THEN <<b>> \o Utf8Decode(Drop(bytes, 1))
            ELSE IF b < 224
                 THEN <<(b - 192) * 64 + (bytes[2] - 128)>>
                      \o Utf8Decode(Drop(bytes, 2))
            ELSE IF b < 240
                 THEN <<(b - 224) * 4096 + (bytes[2] - 128) * 64
                        + (bytes[3] - 128)>>
                      \o Utf8Decode(Drop(bytes, 3))
            ELSE <<(b - 240) * 262144 + (bytes[2] - 128) * 4096
                   + (bytes[3] - 128) * 64 + (bytes[4] - 128)>>
                 \o Utf8Decode(Drop(bytes, 4))

ReadInt(bytes, p, width) ==
    [value |-> WireRead(bytes, p, width), next |-> p + width]

ReadBytes(bytes, p, n) ==
    [value |-> SubSeq(bytes, p + 1, p + n), next |-> p + n]

ReadString(bytes, p) ==
    LET n == WireRead(bytes, p, 4)
    IN [value |-> Utf8Decode(SubSeq(bytes, p + 5, p + 4 + n)),
        next |-> p + 4 + n]

\* Pairs of prefixed strings from p up to the offset `stop`.
RECURSIVE ReadStringPairs(_, _, _)
ReadStringPairs(bytes, p, stop) ==
    IF p >= stop THEN [value |-> <<>>, next |-> p]
    ELSE LET k == ReadString(bytes, p)
             v == ReadString(bytes, k.next)
             rest == ReadStringPairs(bytes, v.next, stop)
         IN [value |-> <<<<k.value, v.value>>>> \o rest.value,
             next |-> rest.next]

\* Pairs of integers, w1 and w2 bytes wide, from p up to the offset `stop`.
RECURSIVE ReadIntPairs(_, _, _, _, _)
ReadIntPairs(bytes, p, stop, w1, w2) ==
    IF p >= stop THEN [value |-> <<>>, next |-> p]
    ELSE LET rest == ReadIntPairs(bytes, p + w1 + w2, stop, w1, w2)
         IN [value |-> <<<<WireRead(bytes, p, w1),
                           WireRead(bytes, p + w1, w2)>>>> \o rest.value,
             next |-> rest.next]

\* A 4-byte byte-length prefix and the string pairs it covers.
ReadMap(bytes, p) ==
    LET n == WireRead(bytes, p, 4)
    IN ReadStringPairs(bytes, p + 4, p + 4 + n)

\* A 4-byte byte-length prefix and the integer pairs it covers.
ReadArray(bytes, p, w1, w2) ==
    LET n == WireRead(bytes, p, 4)
    IN ReadIntPairs(bytes, p + 4, p + 4 + n, w1, w2)

KindOfOpcode ==
    [i \in 1..15 |->
        <<"Header", "Footer", "Schema", "Channel", "Message", "Chunk",
          "MessageIndex", "ChunkIndex", "Attachment", "AttachmentIndex",
          "Statistics", "Metadata", "MetadataIndex", "SummaryOffset",
          "DataEnd">>[i]]

\* The payload of a record of `kind` that begins at offset p and ends at
\* offset `stop`: its fields and the offset after the last one read.
DecodePayload(kind, bytes, p, stop) ==
    CASE kind = "Header" ->
           LET a == ReadString(bytes, p)
               b == ReadString(bytes, a.next)
           IN [rec |-> [profile |-> a.value, library |-> b.value],
               next |-> b.next]
      [] kind = "Footer" ->
           LET a == ReadInt(bytes, p, 8)
               b == ReadInt(bytes, a.next, 8)
               c == ReadInt(bytes, b.next, 4)
           IN [rec |-> [summary_start |-> a.value,
                        summary_offset_start |-> b.value,
                        summary_crc |-> c.value],
               next |-> c.next]
      [] kind = "Schema" ->
           LET a == ReadInt(bytes, p, 2)
               b == ReadString(bytes, a.next)
               c == ReadString(bytes, b.next)
               n == ReadInt(bytes, c.next, 4)
               d == ReadBytes(bytes, n.next, n.value)
           IN [rec |-> [id |-> a.value, name |-> b.value,
                        encoding |-> c.value, data |-> d.value],
               next |-> d.next]
      [] kind = "Channel" ->
           LET a == ReadInt(bytes, p, 2)
               b == ReadInt(bytes, a.next, 2)
               c == ReadString(bytes, b.next)
               d == ReadString(bytes, c.next)
               m == ReadMap(bytes, d.next)
           IN [rec |-> [id |-> a.value, schema_id |-> b.value,
                        topic |-> c.value, message_encoding |-> d.value,
                        metadata |-> m.value],
               next |-> m.next]
      [] kind = "Message" ->
           LET a == ReadInt(bytes, p, 2)
               b == ReadInt(bytes, a.next, 4)
               c == ReadInt(bytes, b.next, 8)
               d == ReadInt(bytes, c.next, 8)
               e == ReadBytes(bytes, d.next, stop - d.next)
           IN [rec |-> [channel_id |-> a.value, sequence |-> b.value,
                        log_time |-> c.value, publish_time |-> d.value,
                        data |-> e.value],
               next |-> e.next]
      [] kind = "Chunk" ->
           LET a == ReadInt(bytes, p, 8)
               b == ReadInt(bytes, a.next, 8)
               c == ReadInt(bytes, b.next, 8)
               d == ReadInt(bytes, c.next, 4)
               e == ReadString(bytes, d.next)
               n == ReadInt(bytes, e.next, 8)
               f == ReadBytes(bytes, n.next, n.value)
           IN [rec |-> [message_start_time |-> a.value,
                        message_end_time |-> b.value,
                        uncompressed_size |-> c.value,
                        uncompressed_crc |-> d.value,
                        compression |-> e.value, data |-> f.value],
               next |-> f.next]
      [] kind = "MessageIndex" ->
           LET a == ReadInt(bytes, p, 2)
               r == ReadArray(bytes, a.next, 8, 8)
           IN [rec |-> [channel_id |-> a.value, records |-> r.value],
               next |-> r.next]
      [] kind = "ChunkIndex" ->
           LET a == ReadInt(bytes, p, 8)
               b == ReadInt(bytes, a.next, 8)
               c == ReadInt(bytes, b.next, 8)
               d == ReadInt(bytes, c.next, 8)
               o == ReadArray(bytes, d.next, 2, 8)
               e == ReadInt(bytes, o.next, 8)
               f == ReadString(bytes, e.next)
               g == ReadInt(bytes, f.next, 8)
               h == ReadInt(bytes, g.next, 8)
           IN [rec |-> [message_start_time |-> a.value,
                        message_end_time |-> b.value,
                        chunk_start_offset |-> c.value,
                        chunk_length |-> d.value,
                        message_index_offsets |-> o.value,
                        message_index_length |-> e.value,
                        compression |-> f.value,
                        compressed_size |-> g.value,
                        uncompressed_size |-> h.value],
               next |-> h.next]
      [] kind = "Attachment" ->
           LET a == ReadInt(bytes, p, 8)
               b == ReadInt(bytes, a.next, 8)
               c == ReadString(bytes, b.next)
               d == ReadString(bytes, c.next)
               n == ReadInt(bytes, d.next, 8)
               e == ReadBytes(bytes, n.next, n.value)
               crc == ReadBytes(bytes, e.next, 4)
           IN [rec |-> [log_time |-> a.value, create_time |-> b.value,
                        name |-> c.value, media_type |-> d.value,
                        data |-> e.value],
               next |-> crc.next]
      [] kind = "AttachmentIndex" ->
           LET a == ReadInt(bytes, p, 8)
               b == ReadInt(bytes, a.next, 8)
               c == ReadInt(bytes, b.next, 8)
               d == ReadInt(bytes, c.next, 8)
               e == ReadInt(bytes, d.next, 8)
               f == ReadString(bytes, e.next)
               g == ReadString(bytes, f.next)
           IN [rec |-> [offset |-> a.value, length |-> b.value,
                        log_time |-> c.value, create_time |-> d.value,
                        data_size |-> e.value, name |-> f.value,
                        media_type |-> g.value],
               next |-> g.next]
      [] kind = "Statistics" ->
           LET a == ReadInt(bytes, p, 8)
               b == ReadInt(bytes, a.next, 2)
               c == ReadInt(bytes, b.next, 4)
               d == ReadInt(bytes, c.next, 4)
               e == ReadInt(bytes, d.next, 4)
               f == ReadInt(bytes, e.next, 4)
               g == ReadInt(bytes, f.next, 8)
               h == ReadInt(bytes, g.next, 8)
               m == ReadArray(bytes, h.next, 2, 8)
           IN [rec |-> [message_count |-> a.value, schema_count |-> b.value,
                        channel_count |-> c.value,
                        attachment_count |-> d.value,
                        metadata_count |-> e.value, chunk_count |-> f.value,
                        message_start_time |-> g.value,
                        message_end_time |-> h.value,
                        channel_message_counts |-> m.value],
               next |-> m.next]
      [] kind = "Metadata" ->
           LET a == ReadString(bytes, p)
               m == ReadMap(bytes, a.next)
           IN [rec |-> [name |-> a.value, metadata |-> m.value],
               next |-> m.next]
      [] kind = "MetadataIndex" ->
           LET a == ReadInt(bytes, p, 8)
               b == ReadInt(bytes, a.next, 8)
               c == ReadString(bytes, b.next)
           IN [rec |-> [offset |-> a.value, length |-> b.value,
                        name |-> c.value],
               next |-> c.next]
      [] kind = "SummaryOffset" ->
           LET a == ReadInt(bytes, p, 1)
               b == ReadInt(bytes, a.next, 8)
               c == ReadInt(bytes, b.next, 8)
           IN [rec |-> [group_opcode |-> a.value, group_start |-> b.value,
                        group_length |-> c.value],
               next |-> c.next]
      [] kind = "DataEnd" ->
           LET a == ReadInt(bytes, p, 4)
           IN [rec |-> [data_section_crc |-> a.value], next |-> a.next]

\* The record that begins at offset `start`: its kind by the opcode byte,
\* its fields, the offset after the last field read and the offset the
\* length field says the record ends at.
DecodeRecord(bytes, start) ==
    LET kind == KindOfOpcode[bytes[start + 1]]
        stop == start + 9 + WireRead(bytes, start + 1, 8)
        d == DecodePayload(kind, bytes, start + 9, stop)
    IN [kind |-> kind, rec |-> d.rec, next |-> d.next, stop |-> stop]

(***************************************************************************)
(* The builder specification: a caller makes any sequence of builder       *)
(* calls, protocol misuse included.                                        *)
(***************************************************************************)
Builds == {"cpython", "micropython"}

Init ==
    /\ build \in Builds
    /\ stream = NewBuilder
    /\ err = "none"
    /\ op = [name |-> "init", arg |-> <<>>]
    /\ ret = <<>>
    /\ open = FALSE
    /\ misuse = FALSE
    /\ nbytes = 0
    /\ emitted = <<>>
    /\ cur = NoRecord
    /\ recs = <<>>
    /\ aborted = FALSE
    /\ nstarts = 0
    /\ nwrites = 0
    /\ reused = FALSE
    /\ nafter = 0

\* The caller sees the exception; the builder keeps the state the call left.
Returned(r, name, arg) ==
    /\ stream' = [r EXCEPT !.exc = "none"]
    /\ err' = r.exc
    /\ op' = [name |-> name, arg |-> arg]
    /\ ret' = <<>>
    /\ misuse => nafter < MaxAfter
    /\ stream.pos <= MaxOffset
    /\ nafter' = IF misuse THEN nafter + 1 ELSE 0
    /\ reused' = (reused \/ op.name = "end")
    /\ UNCHANGED <<build, recs, aborted>>

\* What the observer records for a write call that handed over `bytes`.
Observed(bytes) ==
    /\ nbytes' = nbytes + Len(bytes)
    /\ nwrites' = nwrites + 1
    /\ IF open
          THEN /\ cur' = [cur EXCEPT !.payload = @ \o bytes]
               /\ UNCHANGED emitted
          ELSE /\ emitted' = emitted \o bytes
               /\ UNCHANGED cur
    /\ UNCHANGED <<open, misuse, nstarts>>

Call_start_record(opcode) ==
    /\ nstarts < MaxStarts
    /\ Returned(start_record(stream, opcode), "start_record", <<opcode>>)
    /\ misuse' = (misuse \/ open)
    /\ open' = TRUE
    /\ nbytes' = 0
    /\ cur' = [opcode |-> opcode, payload |-> <<>>]
    /\ nstarts' = nstarts + 1
    /\ UNCHANGED <<emitted, nwrites>>

Call_finish_record ==
    /\ Returned(finish_record(stream), "finish_record", <<>>)
    /\ misuse' = (misuse \/ ~open)
    /\ open' = FALSE
    /\ emitted' = IF open THEN emitted \o WireFrame(cur.opcode, cur.payload)
                  ELSE emitted
    /\ cur' = NoRecord
    /\ UNCHANGED <<nbytes, nstarts, nwrites>>

Call_end ==
    /\ stream' = end_builder(stream)
    /\ ret' = end_value(stream)
    /\ err' = "none"
    /\ op' = [name |-> "end", arg |-> <<>>]
    /\ open' = FALSE
    /\ misuse' = FALSE
    /\ nbytes' = 0
    /\ emitted' = <<>>
    /\ cur' = NoRecord
    /\ nstarts' = 0
    /\ nwrites' = 0
    /\ nafter' = 0
    /\ UNCHANGED <<build, recs, aborted, reused>>

Call_write(data) ==
    /\ nwrites < MaxWrites
    /\ Returned(write(stream, data), "write", data)
    /\ Observed(data)

Call_write1(value) ==
    /\ nwrites < MaxWrites
    /\ Returned(write1(stream, value), "write1", <<value>>)
    /\ Observed(WireInt(1, value))

Call_write2(value) ==
    /\ nwrites < MaxWrites
    /\ Returned(write2(stream, value), "write2", <<value>>)
    /\ Observed(WireInt(2, value))

Call_write4(value) ==
    /\ nwrites < MaxWrites
    /\ Returned(write4(stream, value), "write4", <<value>>)
    /\ Observed(WireInt(4, value))

Call_write8(value) ==
    /\ nwrites < MaxWrites
    /\ Returned(write8(stream, value), "write8", <<value>>)
    /\ Observed(WireInt(8, value))

Call_write_prefixed_string(value) ==
    /\ nwrites < MaxWrites
    /\ Returned(write_prefixed_string(stream, value),
                "write_prefixed_string", value)
    /\ Observed(WireString(value))

Call_Attachment_write(self) ==
    /\ nwrites < MaxWrites
    /\ Returned(Attachment_write(stream, self), "Attachment.write", <<>>)
    /\ Observed(WireAttachment(self))

SomeOpcodes == {5}

SomeData == {<<170, 187, 204>>}

SomeStrings == {<<99, 97, 102, 233>>}     \* "caf\u00e9"

\* Attachment(create_time=2, log_time=1, name="a", media_type="b", data=b"xyz")
SomeAttachments ==
    {[create_time |-> 2, log_time |-> 1, name |-> <<97>>,
      media_type |-> <<98>>, data |-> <<120, 121, 122>>]}

Next ==
    \/ \E opcode \in SomeOpcodes : Call_start_record(opcode)
    \/ Call_finish_record
    \/ Call_end
    \/ \E data \in SomeData : Call_write(data)
    \/ \E value \in {7} : Call_write1(value)
    \/ \E value \in {513} : Call_write2(value)
    \/ \E value \in {67305985} : Call_write4(value)
    \/ \E value \in {16909060} : Call_write8(value)
    \/ \E value \in SomeStrings : Call_write_prefixed_string(value)
    \/ \E self \in SomeAttachments : Call_Attachment_write(self)

Spec == Init /\ [][Next]_vars

(***************************************************************************)
(* The encoder specification: a caller encodes records of any kinds into   *)
(* one builder, one after the other.                                       *)
(***************************************************************************)
MaxItems == 2       \* entries of a map or list field (encoder spec)

StringItems(n) ==
    [i \in 1..n |-> <<<<96 + i>>, [j \in 1..(i - 1) |-> 233]>>]

IdItems(n) == [i \in 1..n |-> <<256 * i + 1, 65536 * i>>]

TimeItems(n) == [i \in 1..n |-> <<i, 1000 * i>>]

Headers ==
    {[profile |-> p, library |-> <<121>>] : p \in {<<>>, <<120>>}}

Footers ==
    {[summary_start |-> v, summary_offset_start |-> 2147483647,
      summary_crc |-> 305419896] : v \in {0, 65536}}

Schemas ==
    {[id |-> 65535, data |-> d, encoding |-> <<>>, name |-> <<8364>>] :
        d \in {<<>>, <<0, 255>>}}

Channels ==
    {[id |-> 258, topic |-> <<116>>, message_encoding |-> <<233, 97>>,
      metadata |-> StringItems(n), schema_id |-> 0] : n \in 0..MaxItems}

\* channel_id 65536 does not fit the two bytes of its field
Messages ==
    {[channel_id |-> c, log_time |-> 1, data |-> d, publish_time |-> 2,
      sequence |-> 7] : c \in {3, 65536}, d \in {<<>>, <<1, 2, 3>>}}

Chunks ==
    {[compression |-> c, data |-> <<5, 6>>, message_end_time |-> 9,
      message_start_time |-> 8, uncompressed_crc |-> 16909060,
      uncompressed_size |-> 2] : c \in {<<>>, <<122>>}}

ChunkIndexes ==
    {[chunk_length |-> 40, chunk_start_offset |-> 300,
      compression |-> <<128512>>, compressed_size |-> 2,
      message_end_time |-> 9, message_index_length |-> 50,
      message_index_offsets |-> IdItems(n), message_start_time |-> 8,
      uncompressed_size |-> 3] : n \in 0..MaxItems}

Attachments ==
    SomeAttachments \cup
    {[create_time |-> 0, log_time |-> 65536, name |-> <<233>>,
      media_type |-> <<>>, data |-> <<>>]}

AttachmentIndexes ==
    {[offset |-> 1, length |-> 2, log_time |-> 3, create_time |-> 4,
      data_size |-> 5, name |-> <<97, 233>>, media_type |-> <<98>>]}

MessageIndexes ==
    {[channel_id |-> 3, records |-> TimeItems(n)] : n \in 0..MaxItems}

Metadatas ==
    {[name |-> <<110>>, metadata |-> StringItems(n)] : n \in 0..MaxItems}

MetadataIndexes == {[offset |-> 77, length |-> 88, name |-> <<8364, 97>>]}

Statisticss ==
    {[attachment_count |-> 1, channel_count |-> 2,
      channel_message_counts |-> IdItems(n), chunk_count |-> 3,
      message_count |-> 4, message_end_time |-> 5,
      message_start_time |-> 6, metadata_count |-> 7,
      schema_count |-> 8] : n \in 0..MaxItems}

SummaryOffsets ==
    {[group_opcode |-> g, group_start |-> 10, group_length |-> 20] :
        g \in {4, 255}}

DataEnds == {[data_section_crc |-> v] : v \in {0, 2147483647}}

\* The state after record.write(stream) returned or raised `r.exc`.
Encoded(r, kind, self) ==
    /\ Len(recs) < MaxRecords
    /\ ~aborted
    /\ stream' = [r EXCEPT !.exc = "none"]
    /\ err' = r.exc
    /\ op' = [name |-> kind, arg |-> self]
    /\ ret' = <<>>
    /\ recs' = IF r.exc = "none"
               THEN Append(recs, [kind |-> kind, rec |-> self,
                                  offset |-> count(stream),
                                  end |-> count(r)])
               ELSE recs
    /\ aborted' = (r.exc # "none")
    /\ UNCHANGED <<build, open, misuse, nbytes, emitted, cur, nstarts,
                   nwrites, reused, nafter>>

Write_Header(self) == Encoded(Header_write(stream, self), "Header", self)

Write_Footer(self) == Encoded(Footer_write(stream, self), "Footer", self)

Write_Schema(self) == Encoded(Schema_write(stream, self), "Schema", self)

Write_Channel(self) == Encoded(Channel_write(stream, self), "Channel", self)

Write_Message(self) == Encoded(Message_write(stream, self), "Message", self)

Write_Chunk(self) == Encoded(Chunk_write(stream, self), "Chunk", self)

Write_MessageIndex(self) ==
    Encoded(MessageIndex_write(stream, self), "MessageIndex", self)

Write_ChunkIndex(self) ==
    Encoded(ChunkIndex_write(stream, self), "ChunkIndex", self)

Write_Attachment(self) ==
    Encoded(Attachment_write(stream, self), "Attachment", self)

Write_AttachmentIndex(self) ==
    Encoded(AttachmentIndex_write(stream, self), "AttachmentIndex", self)

Write_Statistics(self) ==
    Encoded(Statistics_write(stream, self), "Statistics", self)

Write_Metadata(self) ==
    Encoded(Metadata_write(stream, self), "Metadata", self)

Write_MetadataIndex(self) ==
    Encoded(MetadataIndex_write(stream, self), "MetadataIndex", self)

Write_SummaryOffset(self) ==
    Encoded(SummaryOffset_write(stream, self), "SummaryOffset", self)

Write_DataEnd(self) == Encoded(DataEnd_write(stream, self), "DataEnd", self)

RecordNext ==
    \/ \E self \in Headers : Write_Header(self)
    \/ \E self \in Footers : Write_Footer(self)
    \/ \E self \in Schemas : Write_Schema(self)
    \/ \E self \in Channels : Write_Channel(self)
    \/ \E self \in Messages : Write_Message(self)
    \/ \E self \in Chunks : Write_Chunk(self)
    \/ \E self \in MessageIndexes : Write_MessageIndex(self)
    \/ \E self \in ChunkIndexes : Write_ChunkIndex(self)
    \/ \E self \in Attachments : Write_Attachment(self)
    \/ \E self \in AttachmentIndexes : Write_AttachmentIndex(self)
    \/ \E self \in Statisticss : Write_Statistics(self)
    \/ \E self \in Metadatas : Write_Metadata(self)
    \/ \E self \in MetadataIndexes : Write_MetadataIndex(self)
    \/ \E self \in SummaryOffsets : Write_SummaryOffset(self)
    \/ \E self \in DataEnds : Write_DataEnd(self)

RecordSpec == Init /\ [][RecordNext]_vars

(***************************************************************************)
(* Properties of the encoders, checked under RecordSpec.                   *)
(***************************************************************************)
Utf8Len(c) == IF c < 128 THEN 1 ELSE IF c < 2048 THEN 2
              ELSE IF c < 65536 THEN 3 ELSE 4

RECURSIVE StringBytes(_)
StringBytes(value) ==
    IF value = <<>> THEN 0 ELSE Utf8Len(Head(value)) + StringBytes(Tail(value))

RECURSIVE PairsBytes(_)
PairsBytes(metadata) ==
    IF metadata = <<>> THEN 0
    ELSE 4 + StringBytes(Head(metadata)[1]) + 4 + StringBytes(Head(metadata)[2])
         + PairsBytes(Tail(metadata))

\* Every field of the record fits the width the layout gives it.
Fits(e) == e.kind = "Message" => e.rec.channel_id < 65536

\* C2: every record whose fields fit their widths is read back from the
\* buffer by the decoder with the kind and the field values supplied, the
\* fields ending exactly where the length field says the record ends, which
\* is where the builder's count stood after the write.
C2_RoundTrip ==
    \A i \in 1..Len(recs) :
        Fits(recs[i]) =>
            LET d == DecodeRecord(stream.buffer, recs[i].offset)
            IN /\ d.kind = recs[i].kind
               /\ d.rec = recs[i].rec
               /\ d.next = d.stop
               /\ d.stop = recs[i].end

\* C2 witness: a ChunkIndex with two offsets and a Message with data were
\* encoded one after the other and the Message reads back.
C2_Witness ==
    /\ Len(recs) = 2
    /\ recs[1].kind = "ChunkIndex"
    /\ Len(recs[1].rec.message_index_offsets) = 2
    /\ recs[2].kind = "Message"
    /\ recs[2].rec.channel_id = 3
    /\ recs[2].rec.data = <<1, 2, 3>>
    /\ DecodeRecord(stream.buffer, recs[2].offset).rec = recs[2].rec

\* C3: the last 4 bytes of every Attachment record are the CRC32 of the
\* bytes from the first byte after its 9-byte header through the last byte
\* of data, and its length field counts those bytes plus the 4 checksum
\* bytes, so the record occupies 9 + length bytes.
C3_AttachmentChecksum ==
    \A i \in 1..Len(recs) :
        recs[i].kind = "Attachment" =>
            LET o == recs[i].offset
                a == recs[i].rec
                length == LengthField(stream.buffer, o)
                dataEnd == o + 9 + 8 + 8 + 4 + StringBytes(a.name)
                           + 4 + StringBytes(a.media_type) + 8 + Len(a.data)
            IN /\ recs[i].end = o + 9 + length
               /\ length = (dataEnd - (o + 9)) + 4
               /\ SubSeq(stream.buffer, dataEnd + 1, dataEnd + 4)
                    = zlib_crc32(SubSeq(stream.buffer, o + 10, dataEnd))

\* C3 witness: Attachment(name="a", media_type="b", data=b"xyz", log_time=1,
\* create_time=2) was written behind another record; its checksum bytes are
\* those of CRC32 EE9BA392.
C3_Witness ==
    /\ Len(recs) = 2
    /\ recs[1].kind = "Header"
    /\ recs[2].kind = "Attachment"
    /\ recs[2].rec.data = <<120, 121, 122>>
    /\ LengthField(stream.buffer, recs[2].offset) = 41
    /\ SubSeq(stream.buffer, Len(stream.buffer) - 3, Len(stream.buffer))
         = <<146, 163, 155, 238>>

\* The offsets a reader visits that starts at p and skips 9 + length bytes
\* per record up to `stop`; -1 marks a record that overruns `stop`.
RECURSIVE Walk(_, _, _)
Walk(bytes, p, stop) ==
    IF p = stop THEN <<>>
    ELSE IF p + 9 > stop THEN <<-1>>
    ELSE <<p>> \o Walk(bytes, p + 9 + LengthField(bytes, p), stop)

\* C6: after complete encodings the reader that skips by the length fields
\* visits exactly the offsets the records were written at, in order, finds
\* each record's opcode there and stops at the builder's count, which is
\* the end of the buffer.
C6_SelfDelimiting ==
    ~aborted =>
        /\ count(stream) = Len(stream.buffer)
        /\ Walk(stream.buffer, 0, count(stream))
             = [i \in 1..Len(recs) |-> recs[i].offset]
        /\ \A i \in 1..Len(recs) :
              KindOfOpcode[stream.buffer[recs[i].offset + 1]] = recs[i].kind

\* C6 witness: an Attachment followed by a Header, visited at 0 and 50.
C6_Witness ==
    /\ ~aborted
    /\ Len(recs) = 2
    /\ recs[1].kind = "Attachment"
    /\ recs[2].kind = "Header"
    /\ Walk(stream.buffer, 0, count(stream)) = <<0, 50>>

\* The offset of the inner length prefix of a record written at offset o.
PrefixOffset(e) ==
    CASE e.kind = "Channel" ->
           e.offset + 9 + 2 + 2 + 4 + StringBytes(e.rec.topic)
           + 4 + StringBytes(e.rec.message_encoding)
      [] e.kind = "Metadata" -> e.offset + 9 + 4 + StringBytes(e.rec.name)
      [] e.kind = "MessageIndex" -> e.offset + 9 + 2
      [] e.kind = "ChunkIndex" -> e.offset + 9 + 8 + 8 + 8 + 8
      [] e.kind = "Statistics" -> e.offset + 9 + 8 + 2 + 4 + 4 + 4 + 4 + 8 + 8

\* The bytes of the fields that follow the prefixed entries.
TrailerBytes(e) ==
    IF e.kind = "ChunkIndex"
    THEN 8 + 4 + StringBytes(e.rec.compression) + 8 + 8
    ELSE 0

\* What the prefix has to say: the bytes of the entries.
EntriesBytes(e) ==
    CASE e.kind = "Channel" -> PairsBytes(e.rec.metadata)
      [] e.kind = "Metadata" -> PairsBytes(e.rec.metadata)
      [] e.kind = "MessageIndex" -> 16 * Len(e.rec.records)
      [] e.kind = "ChunkIndex" -> 10 * Len(e.rec.message_index_offsets)
      [] e.kind = "Statistics" -> 10 * Len(e.rec.channel_message_counts)

HasPrefix(e) ==
    e.kind \in {"Channel", "Metadata", "MessageIndex", "ChunkIndex",
                "Statistics"}

\* C7: the 4-byte inner length prefix of Channel, Metadata, MessageIndex,
\* ChunkIndex and Statistics holds the number of bytes of the entries that
\* follow it, its own 4 bytes excluded: the sum of 4 + key bytes + 4 + value
\* bytes over the pairs of a map, 16 per MessageIndex entry, 10 per
\* ChunkIndex or Statistics entry; and that many bytes lie between the
\* prefix and the fields after the entries.
C7_InnerPrefix ==
    \A i \in 1..Len(recs) :
        HasPrefix(recs[i]) =>
            LET p == PrefixOffset(recs[i])
                v == WireRead(stream.buffer, p, 4)
            IN /\ v = EntriesBytes(recs[i])
               /\ v = recs[i].end - (p + 4) - TrailerBytes(recs[i])

\* C7 witness: a Channel with two metadata pairs, one value non-ASCII, and
\* a Statistics with no entry.
C7_Witness ==
    /\ Len(recs) = 2
    /\ recs[1].kind = "Channel"
    /\ Len(recs[1].rec.metadata) = 2
    /\ WireRead(stream.buffer, PrefixOffset(recs[1]), 4) = 20
    /\ recs[2].kind = "Statistics"
    /\ Len(recs[2].rec.channel_message_counts) = 0
    /\ WireRead(stream.buffer, PrefixOffset(recs[2]), 4) = 0

\* C8: a Message whose channel id exceeds the two bytes of its field makes
\* the write raise, and no record with a truncated id reaches the buffer.
C8_OverflowFailsFast ==
    (op.name = "Message" /\ op.arg.channel_id > 65535) =>
        /\ err # "none"
        /\ Len(recs) = 0 \/ recs[Len(recs)].rec # op.arg

(***************************************************************************)
(* Properties of the builder, checked under Spec.                          *)
(***************************************************************************)

\* C1: when finish_record closes the record the latest start_record opened,
\* the 8 bytes after that record's opcode hold, little-endian, the number of
\* bytes handed to the write calls made in between, and the record ends
\* 1 + 8 + length bytes after its start.
C1_FinishWritesPayloadLength ==
    [][(op'.name = "finish_record" /\ open) =>
          /\ err' = "none"
          /\ LengthField(stream'.buffer, stream.record_start_offset) = nbytes
          /\ stream'.pos = stream.record_start_offset + 1 + 8 + nbytes]_vars

\* C1 witness: a second record, written with two write calls, was finished.
C1_Witness ==
    /\ op.name = "finish_record"
    /\ err = "none"
    /\ ~misuse
    /\ nwrites = 2
    /\ stream.record_start_offset = 9
    /\ nbytes = 12
    /\ LengthField(stream.buffer, 9) = 12

\* C4: a start_record made while a record is open, and a finish_record made
\* while none is open, raise, and leave the bytes already in the buffer as
\* they were.
C4_MisuseFails ==
    [][((op'.name = "start_record" /\ open)
        \/ (op'.name = "finish_record" /\ ~open)) =>
          /\ err' # "none"
          /\ Len(stream'.buffer) >= Len(stream.buffer)
          /\ \A i \in 1..Len(stream.buffer) :
                stream'.buffer[i] = stream.buffer[i]]_vars

\* C5: end() leaves the builder empty with count 0, and when the protocol
\* was kept and no record is open it returns exactly the frames and raw
\* bytes completed since construction or the previous end().
C5_EndReturnsAllAndResets ==
    [][op'.name = "end" =>
          /\ stream'.buffer = <<>>
          /\ count(stream') = 0
          /\ (~open /\ ~misuse) => ret' = emitted]_vars

\* C5 witness: the second end() of a builder returned one record alone.
C5_Witness ==
    /\ op.name = "end"
    /\ reused
    /\ ret = WireFrame(5, <<170, 187, 204>>)
    /\ count(stream) = 0

\* C9: count is the size of the buffer after every call.
C9_CountIsBufferSize == count(stream) = Len(stream.buffer)

\* C10: while the protocol is kept, a call other than end() never shortens
\* the buffer and changes no byte already in it, except that finish_record
\* rewrites the 8 placeholder bytes of the record the latest start_record
\* opened; so every byte before that record's start stays as it was.
C10_FinishedRecordsImmutable ==
    [][(~misuse' /\ op'.name # "end") =>
          /\ Len(stream'.buffer) >= Len(stream.buffer)
          /\ \A i \in 1..Len(stream.buffer) :
                stream'.buffer[i] # stream.buffer[i] =>
                   /\ op'.name = "finish_record"
                   /\ i > stream.record_start_offset + 1
                   /\ i <= stream.record_start_offset + 9
          /\ \A i \in 1..stream'.record_start_offset :
                i <= Len(stream.buffer) => stream'.buffer[i] = stream.buffer[i]]_vars

\* C10 witness: a second record was finished behind a finished first one.
C10_Witness ==
    /\ op.name = "finish_record"
    /\ ~misuse
    /\ nstarts = 2
    /\ stream.record_start_offset > 9
    /\ nbytes > 0
    /\ LengthField(stream.buffer, 0) = stream.record_start_offset - 9

====
